---- MODULE Spec2Model ----
(***************************************************************************)
(* PCB management simulator: buddy-system PCB pool (buddy_system.rs),      *)
(* linked process queues (queue.rs), scheduler counters (scheduler.rs)     *)
(* and the process manager primitives (main.rs).                           *)
(***************************************************************************)
EXTENDS Integers, Sequences, FiniteSets, TLC

VARIABLES
    pcb_pool,         \* ProcessManager.pcb_pool : BuddySystem
    total_chain,      \* ProcessManager.total_chain : HashMap<u32, PCB>
    ready_queue,      \* ProcessManager.ready_queue : ProcessQueue
    waiting_queue,    \* ProcessManager.waiting_queue : ProcessQueue
    running_queue,    \* ProcessManager.running_queue : ProcessQueue
    scheduler,        \* ProcessManager.scheduler : Scheduler
    next_pid,         \* ProcessManager.next_pid : u32
    overflow_checks,  \* build profile, "unobserved" until the first overflow shows it:
                      \* "on" = arithmetic overflow panics, "off" = it wraps around
    panicked,         \* TRUE once a panic has aborted the program
    ret,              \* the last direct call of the allocator and what it returned
    allocated,        \* history: slots handed out by allocate() and not yet given back
    pre,              \* history: the allocator as it was before the last allocate()
    ready_arrivals,   \* history: pids of the Ready queue, in the order they entered it
    input,            \* the PCBs still to be inserted (queue-ordering runs)
    inserted,         \* the PCBs inserted so far, in insertion order (queue-ordering runs)
    dfrees,           \* history: number of deallocate() calls on slots that were not allocated
    regime            \* which bounds limit the run: "wide" or "deep"

vars == <<pcb_pool, total_chain, ready_queue, waiting_queue, running_queue, scheduler,
          next_pid, overflow_checks, panicked, ret, allocated, pre, ready_arrivals,
          input, inserted, dfrees, regime>>

mgr_vars == <<pcb_pool, total_chain, ready_queue, waiting_queue, running_queue,
              scheduler, next_pid>>

----------------------------------------------------------------------------
(* Bounds of the model *)

\* capacity requested of BuddySystem::new (the program requests MAX_PCB_COUNT)
RequestedSize == 4
\* The manager is explored in two regimes, "wide" (many processes, few ticks) and
\* "deep" (few processes, enough ticks for a time slice to run out): Create is offered
\* while next_pid <= MaxPid, Schedule and RunOneCycle while current_time < MaxTime
WideMaxPid == 4
WideMaxTime == 1
DeepMaxPid == 2
DeepMaxTime == 6
\* priorities offered to Create are 1..MaxPriority
MaxPriority == 2
\* deallocate() of a slot that is not allocated is offered at most this many times
MaxDoubleFree == 2
\* the queue-ordering runs insert at most this many PCBs, of priorities 1..MaxSortPriority
MaxLen == 5
MaxSortPriority == 5

\* The widths, in bits, the model gives to usize and to u32. Rust's are 64 (or 32) and
\* 32; the model needs only that a counter wraps around at the top of its range, and
\* keeps the wrapped values inside the model checker's integers.
UsizeBits == 16
U32Bits == 16

(* Program constants *)

\* default time slice given by create_process and time_slice_expired
DefaultQuantum == 5

UsizeModulus == 2 ^ UsizeBits
U32Modulus == 2 ^ U32Bits

\* Option<T>: None is <<>>, Some(x) is <<x>>
None == <<>>
Some(x) == <<x>>

----------------------------------------------------------------------------
(* buddy_system.rs *)

\* the loop of BuddySystem::new: the smallest power of two >= requested_size
RECURSIVE NewSize(_, _, _)
NewSize(pool_size, max_order, requested_size) ==
    IF pool_size < requested_size
    THEN NewSize(pool_size * 2, max_order + 1, requested_size)
    ELSE [pool_size |-> pool_size, max_order |-> max_order]

\* BuddySystem::new
BuddyNew(requested_size) ==
    LET sz == NewSize(1, 0, requested_size) IN
    [ pool       |-> [i \in 0..(sz.pool_size - 1) |-> None],
      free_list  |-> [k \in 0..sz.max_order |-> IF k = sz.max_order THEN <<0>> ELSE <<>>],
      max_order  |-> sz.max_order,
      pool_size  |-> sz.pool_size,
      used_count |-> 0 ]

\* Vec::contains / Vec::iter().position() (0 when absent, else the 1-based position)
Contains(list, x) == \E i \in 1..Len(list) : list[i] = x
Position(list, x) ==
    IF Contains(list, x) THEN CHOOSE i \in 1..Len(list) :
                                  list[i] = x /\ \A j \in 1..(i - 1) : list[j] # x
    ELSE 0
\* Vec::remove(pos)
RemoveAt(list, pos) == SubSeq(list, 1, pos - 1) \o SubSeq(list, pos + 1, Len(list))
\* mutant of PopLast: the first element is taken instead of the last
PopFirst(list) == [val |-> list[1], rest |-> SubSeq(list, 2, Len(list))]

\* Vec::pop on a non-empty Vec: the last element, and the rest
PopLast(list) == [val |-> list[Len(list)], rest |-> SubSeq(list, 1, Len(list) - 1)]

\* the first loop of allocate: the lowest order >= alloc_order with a non-empty list,
\* max_order + 1 when there is none
RECURSIVE FindOrder(_, _)
FindOrder(b, alloc_order) ==
    IF alloc_order <= b.max_order
    THEN IF b.free_list[alloc_order] # <<>> THEN alloc_order
         ELSE FindOrder(b, alloc_order + 1)
    ELSE alloc_order

\* mutant of Split: the buddy is computed before the order is lowered, so the upper
\* half pushed at each order starts one block too far
RECURSIVE SplitBeforeLowering(_, _, _)
SplitBeforeLowering(free_list, index, alloc_order) ==
    IF alloc_order > 0
    THEN LET o == alloc_order - 1
             buddy_index == index + 2 ^ alloc_order
         IN SplitBeforeLowering([free_list EXCEPT ![o] = Append(@, buddy_index)],
                                index, o)
    ELSE free_list

\* mutant of Split: the loop stops one order early and never pushes the order-0 buddy
RECURSIVE SplitStopsEarly(_, _, _)
SplitStopsEarly(free_list, index, alloc_order) ==
    IF alloc_order > 1
    THEN LET o == alloc_order - 1
             buddy_index == index + 2 ^ o
         IN SplitStopsEarly([free_list EXCEPT ![o] = Append(@, buddy_index)], index, o)
    ELSE free_list

\* the second loop of allocate: split the block at index down to order 0, pushing
\* the upper half at every order on the way
RECURSIVE Split(_, _, _)
Split(free_list, index, alloc_order) ==
    IF alloc_order > 0
    THEN LET o == alloc_order - 1
             buddy_index == index + 2 ^ o
         IN Split([free_list EXCEPT ![o] = Append(@, buddy_index)], index, o)
    ELSE free_list

\* mutant of allocate: the exhaustion test is off by one (>= for >), so a pool whose
\* only free block is the top-order one counts as exhausted
allocate_top_order_lost(b) ==
    LET alloc_order == FindOrder(b, 0) IN
    IF alloc_order >= b.max_order
    THEN [b |-> b, index |-> None, ovf |-> FALSE]
    ELSE LET popped == PopLast(b.free_list[alloc_order])
             index  == popped.val
             fl     == Split([b.free_list EXCEPT ![alloc_order] = popped.rest],
                             index, alloc_order)
         IN [b |-> [b EXCEPT !.free_list = fl,
                             !.used_count = (b.used_count + 1) % UsizeModulus],
             index |-> Some(index),
             ovf |-> b.used_count + 1 >= UsizeModulus]

\* BuddySystem::allocate. ovf: `used_count += 1` overflowed (a panic in a build with
\* overflow checks, a wrap-around otherwise)
allocate(b) ==
    LET alloc_order == FindOrder(b, 0) IN
    IF alloc_order > b.max_order
    THEN [b |-> b, index |-> None, ovf |-> FALSE]
    ELSE LET popped == PopLast(b.free_list[alloc_order])
             index  == popped.val
             fl     == Split([b.free_list EXCEPT ![alloc_order] = popped.rest],
                             index, alloc_order)
         IN [b |-> [b EXCEPT !.free_list = fl,
                             !.used_count = (b.used_count + 1) % UsizeModulus],
             index |-> Some(index),
             ovf |-> b.used_count + 1 >= UsizeModulus]

\* BuddySystem::store_pcb
store_pcb(b, index, pcb) ==
    IF index < b.pool_size THEN [b EXCEPT !.pool[index] = Some(pcb)] ELSE b

\* index ^ (1 << order)
BuddyOf(index, order) ==
    IF (index \div 2 ^ order) % 2 = 0 THEN index + 2 ^ order ELSE index - 2 ^ order

Min(a, b) == IF a < b THEN a ELSE b

Max(a, b) == IF a > b THEN a ELSE b

\* mutant of merge_and_free: the merged block is named by the larger of the two indices
RECURSIVE merge_and_free_max(_, _, _, _)
merge_and_free_max(free_list, max_order, index, order) ==
    IF order >= max_order
    THEN IF ~Contains(free_list[order], index)
         THEN [free_list EXCEPT ![order] = Append(@, index)]
         ELSE free_list
    ELSE LET buddy_index == BuddyOf(index, order)
             pos == Position(free_list[order], buddy_index)
         IN IF pos # 0
            THEN merge_and_free_max([free_list EXCEPT ![order] = RemoveAt(@, pos)],
                                    max_order, Max(index, buddy_index), order + 1)
            ELSE IF ~Contains(free_list[order], index)
                 THEN [free_list EXCEPT ![order] = Append(@, index)]
                 ELSE free_list

\* mutant of merge_and_free: one merge only, the merged block is pushed without
\* looking for its own buddy
merge_and_free_once(free_list, max_order, index, order) ==
    IF order >= max_order
    THEN IF ~Contains(free_list[order], index)
         THEN [free_list EXCEPT ![order] = Append(@, index)]
         ELSE free_list
    ELSE LET buddy_index == BuddyOf(index, order)
             pos == Position(free_list[order], buddy_index)
         IN IF pos # 0
            THEN [free_list EXCEPT ![order] = RemoveAt(@, pos),
                                   ![order + 1] = Append(@, Min(index, buddy_index))]
            ELSE IF ~Contains(free_list[order], index)
                 THEN [free_list EXCEPT ![order] = Append(@, index)]
                 ELSE free_list

\* mutant of merge_and_free: the buddy found free is not taken out of its list when
\* the two are merged
RECURSIVE merge_and_free_keeps_buddy(_, _, _, _)
merge_and_free_keeps_buddy(free_list, max_order, index, order) ==
    IF order >= max_order
    THEN IF ~Contains(free_list[order], index)
         THEN [free_list EXCEPT ![order] = Append(@, index)]
         ELSE free_list
    ELSE LET buddy_index == BuddyOf(index, order)
             pos == Position(free_list[order], buddy_index)
         IN IF pos # 0
            THEN merge_and_free_keeps_buddy(free_list, max_order,
                                            Min(index, buddy_index), order + 1)
            ELSE IF ~Contains(free_list[order], index)
                 THEN [free_list EXCEPT ![order] = Append(@, index)]
                 ELSE free_list

\* BuddySystem::merge_and_free: the loop, one iteration per call
RECURSIVE merge_and_free(_, _, _, _)
merge_and_free(free_list, max_order, index, order) ==
    IF order >= max_order
    THEN IF ~Contains(free_list[order], index)
         THEN [free_list EXCEPT ![order] = Append(@, index)]
         ELSE free_list
    ELSE LET buddy_index == BuddyOf(index, order)
             pos == Position(free_list[order], buddy_index)
         IN IF pos # 0
            THEN merge_and_free([free_list EXCEPT ![order] = RemoveAt(@, pos)],
                                max_order, Min(index, buddy_index), order + 1)
            ELSE IF ~Contains(free_list[order], index)
                 THEN [free_list EXCEPT ![order] = Append(@, index)]
                 ELSE free_list

\* BuddySystem::deallocate. ovf: `used_count -= 1` underflowed (a panic in a build
\* with overflow checks, a wrap-around to usize::MAX otherwise)
deallocate(b, index) ==
    IF index >= b.pool_size
    THEN [b |-> b, ovf |-> FALSE]
    ELSE [b |-> [b EXCEPT
                   !.pool[index] = None,
                   !.used_count = (b.used_count - 1) % UsizeModulus,
                   !.free_list = merge_and_free(b.free_list, b.max_order, index, 0)],
          ovf |-> b.used_count = 0]

\* BuddySystem::get_free_count / get_used_count
get_free_count(b) == (b.pool_size - b.used_count) % UsizeModulus
get_used_count(b) == b.used_count

----------------------------------------------------------------------------
(* pcb.rs, queue.rs, scheduler.rs *)

\* PCB::new
PCBNew(pool_index, pid) ==
    [pid |-> pid, priority |-> 0, state |-> "Ready", remaining_time |-> 0,
     pool_index |-> pool_index]

\* ProcessQueue::new. items: the PCBs of the linked nodes from head to tail
QueueNew == [items |-> <<>>, length |-> 0]

\* ProcessQueue::enqueue
enqueue(q, pcb) ==
    [items |-> Append(q.items, pcb), length |-> (q.length + 1) % UsizeModulus]

\* the list with x linked in after the node at pos (at the head when pos = 0)
InsertAfter(items, pos, x) ==
    SubSeq(items, 1, pos) \o <<x>> \o SubSeq(items, pos + 1, Len(items))

\* mutant of WalkByPriority: the walk stops at the first node of equal priority (> for >=)
RECURSIVE WalkStrict(_, _, _)
WalkStrict(items, current, priority) ==
    IF current + 1 <= Len(items) /\ items[current + 1].priority > priority
    THEN WalkStrict(items, current + 1, priority)
    ELSE current

\* the walk of enqueue_by_priority: the position of the node to insert after
RECURSIVE WalkByPriority(_, _, _)
WalkByPriority(items, current, priority) ==
    IF current + 1 <= Len(items) /\ items[current + 1].priority >= priority
    THEN WalkByPriority(items, current + 1, priority)
    ELSE current

\* mutant of enqueue_by_priority: the PCB is linked in at the tail whatever its priority
enqueue_by_priority_at_tail(q, pcb) ==
    [items |-> Append(q.items, pcb), length |-> (q.length + 1) % UsizeModulus]

\* mutant of enqueue_by_priority: a PCB whose priority equals the head's goes to the
\* head (>= for >)
enqueue_by_priority_ties_first(q, pcb) ==
    LET at == IF q.items = <<>> \/ pcb.priority >= q.items[1].priority
              THEN 0
              ELSE WalkByPriority(q.items, 1, pcb.priority)
    IN [items |-> InsertAfter(q.items, at, pcb), length |-> (q.length + 1) % UsizeModulus]

\* ProcessQueue::enqueue_by_priority
enqueue_by_priority(q, pcb) ==
    LET at == IF q.items = <<>> \/ pcb.priority > q.items[1].priority
              THEN 0
              ELSE WalkByPriority(q.items, 1, pcb.priority)
    IN [items |-> InsertAfter(q.items, at, pcb), length |-> (q.length + 1) % UsizeModulus]

\* mutant of dequeue: the node at the tail is taken instead of the head
dequeue_tail(q) ==
    IF q.items # <<>>
    THEN [q |-> [items |-> SubSeq(q.items, 1, Len(q.items) - 1),
                 length |-> (q.length - 1) % UsizeModulus],
          pcb |-> Some(q.items[Len(q.items)]), ovf |-> q.length = 0]
    ELSE [q |-> q, pcb |-> None, ovf |-> FALSE]

\* ProcessQueue::dequeue. ovf: `length -= 1` underflowed
dequeue(q) ==
    IF q.items # <<>>
    THEN [q |-> [items |-> Tail(q.items), length |-> (q.length - 1) % UsizeModulus],
          pcb |-> Some(Head(q.items)), ovf |-> q.length = 0]
    ELSE [q |-> q, pcb |-> None, ovf |-> FALSE]

\* ProcessQueue::front
front(q) == IF q.items # <<>> THEN Some(Head(q.items)) ELSE None
\* ProcessQueue::is_empty
is_empty(q) == q.items = <<>>

\* position of the first node with this pid, 0 when there is none
PidPosition(items, pid) ==
    IF \E i \in 1..Len(items) : items[i].pid = pid
    THEN CHOOSE i \in 1..Len(items) :
             items[i].pid = pid /\ \A j \in 1..(i - 1) : items[j].pid # pid
    ELSE 0

\* mutant of remove_by_pid: a node unlinked behind the head is not counted off the
\* length
remove_by_pid_inner_uncounted(q, pid) ==
    LET pos == PidPosition(q.items, pid) IN
    IF pos # 0
    THEN [q |-> [items |-> RemoveAt(q.items, pos),
                 length |-> IF pos = 1 THEN (q.length - 1) % UsizeModulus ELSE q.length],
          pcb |-> Some(q.items[pos]), ovf |-> pos = 1 /\ q.length = 0]
    ELSE [q |-> q, pcb |-> None, ovf |-> FALSE]

\* ProcessQueue::remove_by_pid. ovf: `length -= 1` underflowed
remove_by_pid(q, pid) ==
    LET pos == PidPosition(q.items, pid) IN
    IF pos # 0
    THEN [q |-> [items |-> RemoveAt(q.items, pos),
                 length |-> (q.length - 1) % UsizeModulus],
          pcb |-> Some(q.items[pos]), ovf |-> q.length = 0]
    ELSE [q |-> q, pcb |-> None, ovf |-> FALSE]

\* Scheduler::new
SchedulerNew == [total_executed |-> 0, total_switches |-> 0, current_time |-> 0]

\* Scheduler::execute_process
execute_process(s) ==
    [s EXCEPT !.total_executed = (@ + 1) % U32Modulus,
              !.current_time = (@ + 1) % U32Modulus]
ExecuteOverflows(s) ==
    s.total_executed + 1 >= U32Modulus \/ s.current_time + 1 >= U32Modulus

\* Scheduler::record_switch
record_switch(s) == [s EXCEPT !.total_switches = (@ + 1) % U32Modulus]
SwitchOverflows(s) == s.total_switches + 1 >= U32Modulus

----------------------------------------------------------------------------
(* main.rs: ProcessManager *)

\* ProcessManager::new, with the pool capacity as a parameter
ManagerNew(capacity) ==
    [ pcb_pool      |-> BuddyNew(capacity),
      total_chain   |-> << >>,
      ready_queue   |-> QueueNew,
      waiting_queue |-> QueueNew,
      running_queue |-> QueueNew,
      scheduler     |-> SchedulerNew,
      next_pid      |-> 1 ]

\* HashMap::insert / HashMap::remove on total_chain
ChainInsert(chain, pid, pcb) ==
    [p \in (DOMAIN chain) \cup {pid} |-> IF p = pid THEN pcb ELSE chain[p]]
ChainRemove(chain, pid) == [p \in (DOMAIN chain) \ {pid} |-> chain[p]]

\* What a primitive returns, with the manager it leaves behind.
\*   ok, err, val : the Result (err names the error, val is the pid of Ok(pid))
\*   ovf          : an arithmetic overflow happened on the way
\*   events       : the entries to and removals from the Ready queue, in order
Ok(m, val, ovf, events) ==
    [m |-> m, ok |-> TRUE, err |-> "", val |-> val, ovf |-> ovf, events |-> events]
Err(m, err, ovf) ==
    [m |-> m, ok |-> FALSE, err |-> err, val |-> 0, ovf |-> ovf, events |-> <<>>]
Enter(pid) == [kind |-> "enter", pid |-> pid]
Leave(pid) == [kind |-> "leave", pid |-> pid]

\* mutant of create_process: the pid is taken before the slot, so a failed Create
\* consumes a pid
create_process_pid_first(m, priority) ==
    LET pid   == m.next_pid
        taken == [m EXCEPT !.next_pid = (pid + 1) % U32Modulus]
        a     == allocate(m.pcb_pool)
    IN IF a.index = None
       THEN Err(taken, "PoolExhausted", a.ovf)
       ELSE LET pool_index == a.index[1]
                new_pcb == [PCBNew(pool_index, pid) EXCEPT
                              !.priority = priority,
                              !.state = "Ready",
                              !.remaining_time = DefaultQuantum]
            IN Ok([taken EXCEPT
                     !.pcb_pool = store_pcb(a.b, pool_index, new_pcb),
                     !.total_chain = ChainInsert(@, pid, new_pcb),
                     !.ready_queue = enqueue_by_priority(@, new_pcb)],
                  pid,
                  a.ovf \/ pid + 1 >= U32Modulus,
                  <<Enter(pid)>>)

\* mutant of create_process: the lowest pid that no live process has is given out
\* again, and next_pid only grows when that pid is next_pid itself
create_process_recycles_pid(m, priority) ==
    LET a == allocate(m.pcb_pool) IN
    IF a.index = None
    THEN Err(m, "PoolExhausted", a.ovf)
    ELSE LET pool_index == a.index[1]
             pid     == CHOOSE p \in 1..m.next_pid :
                            /\ p \notin DOMAIN m.total_chain
                            /\ \A q \in 1..(p - 1) : q \in DOMAIN m.total_chain
             new_pcb == [PCBNew(pool_index, pid) EXCEPT
                           !.priority = priority,
                           !.state = "Ready",
                           !.remaining_time = DefaultQuantum]
         IN Ok([m EXCEPT
                  !.next_pid = IF pid = m.next_pid THEN (pid + 1) % U32Modulus ELSE @,
                  !.pcb_pool = store_pcb(a.b, pool_index, new_pcb),
                  !.total_chain = ChainInsert(@, pid, new_pcb),
                  !.ready_queue = enqueue_by_priority(@, new_pcb)],
               pid,
               a.ovf \/ pid + 1 >= U32Modulus,
               <<Enter(pid)>>)

\* ProcessManager::create_process
create_process(m, priority) ==
    LET a == allocate(m.pcb_pool) IN
    IF a.index = None
    THEN Err(m, "PoolExhausted", a.ovf)
    ELSE LET pool_index == a.index[1]
             pid     == m.next_pid
             new_pcb == [PCBNew(pool_index, pid) EXCEPT
                           !.priority = priority,
                           !.state = "Ready",
                           !.remaining_time = DefaultQuantum]
         IN Ok([m EXCEPT
                  !.next_pid = (pid + 1) % U32Modulus,
                  !.pcb_pool = store_pcb(a.b, pool_index, new_pcb),
                  !.total_chain = ChainInsert(@, pid, new_pcb),
                  !.ready_queue = enqueue_by_priority(@, new_pcb)],
               pid,
               a.ovf \/ pid + 1 >= U32Modulus,
               <<Enter(pid)>>)

\* mutant of terminate_process: the slot is not given back to the allocator
terminate_process_keeps_slot(m, pid) ==
    IF pid \notin DOMAIN m.total_chain
    THEN Err(m, "NoSuchProcess", FALSE)
    ELSE LET r1  == remove_by_pid(m.ready_queue, pid)
             r2  == remove_by_pid(m.waiting_queue, pid)
             r3  == remove_by_pid(m.running_queue, pid)
         IN Ok([m EXCEPT
                  !.total_chain = ChainRemove(@, pid),
                  !.ready_queue = r1.q,
                  !.waiting_queue = r2.q,
                  !.running_queue = r3.q],
               0,
               r1.ovf \/ r2.ovf \/ r3.ovf,
               IF r1.pcb # None THEN <<Leave(pid)>> ELSE <<>>)

\* ProcessManager::terminate_process
terminate_process(m, pid) ==
    IF pid \notin DOMAIN m.total_chain
    THEN Err(m, "NoSuchProcess", FALSE)
    ELSE LET pcb == m.total_chain[pid]
             r1  == remove_by_pid(m.ready_queue, pid)
             r2  == remove_by_pid(m.waiting_queue, pid)
             r3  == remove_by_pid(m.running_queue, pid)
             d   == deallocate(m.pcb_pool, pcb.pool_index)
         IN Ok([m EXCEPT
                  !.total_chain = ChainRemove(@, pid),
                  !.ready_queue = r1.q,
                  !.waiting_queue = r2.q,
                  !.running_queue = r3.q,
                  !.pcb_pool = d.b],
               0,
               r1.ovf \/ r2.ovf \/ r3.ovf \/ d.ovf,
               IF r1.pcb # None THEN <<Leave(pid)>> ELSE <<>>)

\* mutant of time_slice_expired: the process goes back to Ready ahead of the entries
\* of its own priority (behind the higher ones only)
time_slice_expired_ahead_of_equals(m) ==
    LET d == dequeue(m.running_queue) IN
    IF d.pcb = None
    THEN Err(m, "NoRunningProcess", d.ovf)
    ELSE LET running_pcb == [d.pcb[1] EXCEPT !.state = "Ready",
                                             !.remaining_time = DefaultQuantum]
             pid == running_pcb.pid
             higher == SelectSeq(m.ready_queue.items,
                                 LAMBDA x : x.priority > running_pcb.priority)
             others == SelectSeq(m.ready_queue.items,
                                 LAMBDA x : x.priority <= running_pcb.priority)
         IN Ok([m EXCEPT
                  !.running_queue = d.q,
                  !.total_chain =
                      IF pid \in DOMAIN @
                      THEN [@ EXCEPT ![pid].state = "Ready",
                                     ![pid].remaining_time = DefaultQuantum]
                      ELSE @,
                  !.ready_queue = [items |-> higher \o <<running_pcb>> \o others,
                                   length |-> (@.length + 1) % UsizeModulus],
                  !.scheduler = record_switch(@)],
               0,
               d.ovf \/ SwitchOverflows(m.scheduler),
               <<Enter(pid)>>)

\* ProcessManager::time_slice_expired
time_slice_expired(m) ==
    LET d == dequeue(m.running_queue) IN
    IF d.pcb = None
    THEN Err(m, "NoRunningProcess", d.ovf)
    ELSE LET running_pcb == [d.pcb[1] EXCEPT !.state = "Ready",
                                             !.remaining_time = DefaultQuantum]
             pid == running_pcb.pid
         IN Ok([m EXCEPT
                  !.running_queue = d.q,
                  !.total_chain =
                      IF pid \in DOMAIN @
                      THEN [@ EXCEPT ![pid].state = "Ready",
                                     ![pid].remaining_time = DefaultQuantum]
                      ELSE @,
                  !.ready_queue = enqueue_by_priority(@, running_pcb),
                  !.scheduler = record_switch(@)],
               0,
               d.ovf \/ SwitchOverflows(m.scheduler),
               <<Enter(pid)>>)

\* mutant of suspend_process: the PCB is put into Waiting by priority, as it is put
\* into Ready, instead of at the tail
suspend_process_by_priority(m, pid) ==
    IF pid \notin DOMAIN m.total_chain
    THEN Err(m, "NoSuchProcess", FALSE)
    ELSE LET r1 == remove_by_pid(m.ready_queue, pid)
             r2 == remove_by_pid(m.running_queue, pid)
             removed_from_ready == r1.pcb # None
             removed_from_running == r2.pcb # None
             after == [m EXCEPT !.ready_queue = r1.q, !.running_queue = r2.q]
         IN IF ~removed_from_ready /\ ~removed_from_running
            THEN Err(after, "NotReadyOrRunning", r1.ovf \/ r2.ovf)
            ELSE LET pcb == [m.total_chain[pid] EXCEPT !.state = "Waiting"]
                 IN Ok([after EXCEPT
                          !.total_chain[pid] = pcb,
                          !.waiting_queue = enqueue_by_priority(@, pcb)],
                       0,
                       r1.ovf \/ r2.ovf,
                       IF removed_from_ready THEN <<Leave(pid)>> ELSE <<>>)

\* ProcessManager::suspend_process
suspend_process(m, pid) ==
    IF pid \notin DOMAIN m.total_chain
    THEN Err(m, "NoSuchProcess", FALSE)
    ELSE LET r1 == remove_by_pid(m.ready_queue, pid)
             r2 == remove_by_pid(m.running_queue, pid)
             removed_from_ready == r1.pcb # None
             removed_from_running == r2.pcb # None
             after == [m EXCEPT !.ready_queue = r1.q, !.running_queue = r2.q]
         IN IF ~removed_from_ready /\ ~removed_from_running
            THEN Err(after, "NotReadyOrRunning", r1.ovf \/ r2.ovf)
            ELSE LET pcb == [m.total_chain[pid] EXCEPT !.state = "Waiting"]
                 IN Ok([after EXCEPT
                          !.total_chain[pid] = pcb,
                          !.waiting_queue = enqueue(@, pcb)],
                       0,
                       r1.ovf \/ r2.ovf,
                       IF removed_from_ready THEN <<Leave(pid)>> ELSE <<>>)

\* mutant of activate_process: the time slice is set anew, as it is when it expires
activate_process_new_slice(m, pid) ==
    LET r == remove_by_pid(m.waiting_queue, pid) IN
    IF r.pcb = None
    THEN Err(m, "NotWaiting", r.ovf)
    ELSE LET pcb == [r.pcb[1] EXCEPT !.state = "Ready",
                                     !.remaining_time = DefaultQuantum]
         IN Ok([m EXCEPT
                  !.waiting_queue = r.q,
                  !.total_chain =
                      IF pid \in DOMAIN @
                      THEN [@ EXCEPT ![pid].state = "Ready",
                                     ![pid].remaining_time = DefaultQuantum]
                      ELSE @,
                  !.ready_queue = enqueue_by_priority(@, pcb)],
               0,
               r.ovf,
               <<Enter(pid)>>)

\* mutant of activate_process: the PCB is appended at the tail of Ready
activate_process_at_tail(m, pid) ==
    LET r == remove_by_pid(m.waiting_queue, pid) IN
    IF r.pcb = None
    THEN Err(m, "NotWaiting", r.ovf)
    ELSE LET pcb == [r.pcb[1] EXCEPT !.state = "Ready"]
         IN Ok([m EXCEPT
                  !.waiting_queue = r.q,
                  !.total_chain =
                      IF pid \in DOMAIN @ THEN [@ EXCEPT ![pid].state = "Ready"] ELSE @,
                  !.ready_queue = enqueue(@, pcb)],
               0,
               r.ovf,
               <<Enter(pid)>>)

\* ProcessManager::activate_process
activate_process(m, pid) ==
    LET r == remove_by_pid(m.waiting_queue, pid) IN
    IF r.pcb = None
    THEN Err(m, "NotWaiting", r.ovf)
    ELSE LET pcb == [r.pcb[1] EXCEPT !.state = "Ready"]
         IN Ok([m EXCEPT
                  !.waiting_queue = r.q,
                  !.total_chain =
                      IF pid \in DOMAIN @ THEN [@ EXCEPT ![pid].state = "Ready"] ELSE @,
                  !.ready_queue = enqueue_by_priority(@, pcb)],
               0,
               r.ovf,
               <<Enter(pid)>>)

\* mutant of schedule: the Directory copy is not set to Running
schedule_no_mirror(m) ==
    IF is_empty(m.running_queue)
    THEN LET d == dequeue(m.ready_queue) IN
         IF d.pcb = None
         THEN Err(m, "ReadyQueueEmpty", d.ovf)
         ELSE LET pcb == [d.pcb[1] EXCEPT !.state = "Running"]
              IN Ok([m EXCEPT
                       !.ready_queue = d.q,
                       !.running_queue = enqueue(@, pcb),
                       !.scheduler = execute_process(record_switch(@))],
                    0,
                    d.ovf \/ SwitchOverflows(m.scheduler) \/ ExecuteOverflows(m.scheduler),
                    <<Leave(pcb.pid)>>)
    ELSE IF front(m.running_queue) # None
         THEN Ok([m EXCEPT !.scheduler = execute_process(@)], 0,
                 ExecuteOverflows(m.scheduler), <<>>)
         ELSE Err(m, "RunningQueueAbnormal", FALSE)

\* mutant of schedule: the head of Ready is dispatched also when a process is Running
schedule_always_dispatches(m) ==
    LET d == dequeue(m.ready_queue) IN
    IF d.pcb = None
    THEN IF front(m.running_queue) # None
         THEN Ok([m EXCEPT !.scheduler = execute_process(@)], 0,
                 ExecuteOverflows(m.scheduler), <<>>)
         ELSE Err(m, "ReadyQueueEmpty", d.ovf)
    ELSE LET pcb == [d.pcb[1] EXCEPT !.state = "Running"]
         IN Ok([m EXCEPT
                  !.ready_queue = d.q,
                  !.total_chain =
                      IF pcb.pid \in DOMAIN @
                      THEN [@ EXCEPT ![pcb.pid].state = "Running"]
                      ELSE @,
                  !.running_queue = enqueue(@, pcb),
                  !.scheduler = execute_process(record_switch(@))],
               0,
               d.ovf \/ SwitchOverflows(m.scheduler) \/ ExecuteOverflows(m.scheduler),
               <<Leave(pcb.pid)>>)

\* ProcessManager::schedule
schedule(m) ==
    IF is_empty(m.running_queue)
    THEN LET d == dequeue(m.ready_queue) IN
         IF d.pcb = None
         THEN Err(m, "ReadyQueueEmpty", d.ovf)
         ELSE LET pcb == [d.pcb[1] EXCEPT !.state = "Running"]
              IN Ok([m EXCEPT
                       !.ready_queue = d.q,
                       !.total_chain =
                           IF pcb.pid \in DOMAIN @
                           THEN [@ EXCEPT ![pcb.pid].state = "Running"]
                           ELSE @,
                       !.running_queue = enqueue(@, pcb),
                       !.scheduler = execute_process(record_switch(@))],
                    0,
                    d.ovf \/ SwitchOverflows(m.scheduler) \/ ExecuteOverflows(m.scheduler),
                    <<Leave(pcb.pid)>>)
    ELSE IF front(m.running_queue) # None
         THEN Ok([m EXCEPT !.scheduler = execute_process(@)], 0,
                 ExecuteOverflows(m.scheduler), <<>>)
         ELSE Err(m, "RunningQueueAbnormal", FALSE)

\* mutant of RunTick: the time slice is only taken to be used up below zero (< 0 for
\* <= 0), which an unsigned count never is
RunTickNeverExpires(m, ovf, events) ==
    IF front(m.running_queue) = None
    THEN Ok(m, 0, ovf, events)
    ELSE LET pcb  == front(m.running_queue)[1]
             pid  == pcb.pid
             left == (pcb.remaining_time - 1) % U32Modulus
             ticked == [m EXCEPT
                          !.running_queue.items[1].remaining_time = left,
                          !.total_chain =
                              IF pid \in DOMAIN @
                              THEN [@ EXCEPT ![pid].remaining_time = left]
                              ELSE @]
             under == pcb.remaining_time = 0
         IN IF left < 0
            THEN LET t == time_slice_expired(ticked)
                 IN Ok(t.m, 0, ovf \/ under \/ t.ovf, events \o t.events)
            ELSE Ok(ticked, 0, ovf \/ under, events)

\* mutant of RunTick: the tick is taken from the queue copy and not written to the
\* Directory copy
RunTickNoMirror(m, ovf, events) ==
    IF front(m.running_queue) = None
    THEN Ok(m, 0, ovf, events)
    ELSE LET pcb  == front(m.running_queue)[1]
             left == (pcb.remaining_time - 1) % U32Modulus
             ticked == [m EXCEPT !.running_queue.items[1].remaining_time = left]
             under == pcb.remaining_time = 0
         IN IF left <= 0
            THEN LET t == time_slice_expired(ticked)
                 IN Ok(t.m, 0, ovf \/ under \/ t.ovf, events \o t.events)
            ELSE Ok(ticked, 0, ovf \/ under, events)

\* mutant of RunTick: the time slice is taken to be used up one tick early (<= 1 for <= 0)
RunTickEarly(m, ovf, events) ==
    IF front(m.running_queue) = None
    THEN Ok(m, 0, ovf, events)
    ELSE LET pcb  == front(m.running_queue)[1]
             pid  == pcb.pid
             left == (pcb.remaining_time - 1) % U32Modulus
             ticked == [m EXCEPT
                          !.running_queue.items[1].remaining_time = left,
                          !.total_chain =
                              IF pid \in DOMAIN @
                              THEN [@ EXCEPT ![pid].remaining_time = left]
                              ELSE @]
             under == pcb.remaining_time = 0
         IN IF left <= 1
            THEN LET t == time_slice_expired(ticked)
                 IN Ok(t.m, 0, ovf \/ under \/ t.ovf, events \o t.events)
            ELSE Ok(ticked, 0, ovf \/ under, events)

\* ProcessManager::run_one_cycle, after its call of schedule: the running process
\* loses one tick and, at zero, its time slice expires
RunTick(m, ovf, events) ==
    IF front(m.running_queue) = None
    THEN Ok(m, 0, ovf, events)
    ELSE LET pcb  == front(m.running_queue)[1]
             pid  == pcb.pid
             left == (pcb.remaining_time - 1) % U32Modulus
             ticked == [m EXCEPT
                          !.running_queue.items[1].remaining_time = left,
                          !.total_chain =
                              IF pid \in DOMAIN @
                              THEN [@ EXCEPT ![pid].remaining_time = left]
                              ELSE @]
             under == pcb.remaining_time = 0
         IN IF left <= 0
            THEN LET t == time_slice_expired(ticked)
                 IN Ok(t.m, 0, ovf \/ under \/ t.ovf, events \o t.events)
            ELSE Ok(ticked, 0, ovf \/ under, events)

\* ProcessManager::run_one_cycle
run_one_cycle(m) ==
    IF is_empty(m.running_queue)
    THEN LET s == schedule(m) IN
         IF ~s.ok
         THEN Ok(s.m, 0, s.ovf, <<>>)
         ELSE RunTick(s.m, s.ovf, s.events)
    ELSE RunTick(m, FALSE, <<>>)

----------------------------------------------------------------------------
(* The state machine *)

MaxPid == IF regime = "deep" THEN DeepMaxPid ELSE WideMaxPid
MaxTime == IF regime = "deep" THEN DeepMaxTime ELSE WideMaxTime
Pids == 1..MaxPid
Priorities == 1..MaxPriority

\* the ProcessManager made of the state variables, and the variables set from one
Mgr ==
    [ pcb_pool      |-> pcb_pool,
      total_chain   |-> total_chain,
      ready_queue   |-> ready_queue,
      waiting_queue |-> waiting_queue,
      running_queue |-> running_queue,
      scheduler     |-> scheduler,
      next_pid      |-> next_pid ]

SetMgr(m) ==
    /\ pcb_pool' = m.pcb_pool
    /\ total_chain' = m.total_chain
    /\ ready_queue' = m.ready_queue
    /\ waiting_queue' = m.waiting_queue
    /\ running_queue' = m.running_queue
    /\ scheduler' = m.scheduler
    /\ next_pid' = m.next_pid

InitMgr(m) ==
    /\ pcb_pool = m.pcb_pool
    /\ total_chain = m.total_chain
    /\ ready_queue = m.ready_queue
    /\ waiting_queue = m.waiting_queue
    /\ running_queue = m.running_queue
    /\ scheduler = m.scheduler
    /\ next_pid = m.next_pid

\* the record of a direct allocator call: the call, its argument and result, whether
\* the slot given back was allocated, and the call before it with its result
Ret(op, arg, val, was_allocated, prev_op, prev_val) ==
    [op |-> op, arg |-> arg, val |-> val, was_allocated |-> was_allocated,
     prev_op |-> prev_op, prev_val |-> prev_val]

\* the arrival order of the Ready queue after the events of one call
RECURSIVE Arrivals(_, _)
Arrivals(order, events) ==
    IF events = <<>> THEN order
    ELSE LET e == Head(events)
             without == SelectSeq(order, LAMBDA p : p # e.pid)
         IN Arrivals(IF e.kind = "enter" THEN Append(without, e.pid) ELSE without,
                     Tail(events))

\* The build profile after a call: the first overflow shows whether the build checks
\* arithmetic (debug profile) or wraps (release profile); it never changes afterwards.
Profile(ovf) ==
    IF ovf /\ overflow_checks = "unobserved"
    THEN overflow_checks' \in {"on", "off"}
    ELSE UNCHANGED overflow_checks

\* One call of a manager primitive that returned r: a panic ends the program, and
\* otherwise the manager is as the primitive left it.
Call(r, slots) ==
    /\ ~panicked
    /\ Profile(r.ovf)
    /\ IF overflow_checks' = "on" /\ r.ovf
       THEN /\ panicked' = TRUE
            /\ UNCHANGED <<mgr_vars, allocated, ready_arrivals>>
       ELSE /\ SetMgr(r.m)
            /\ allocated' = slots
            /\ ready_arrivals' = Arrivals(ready_arrivals, r.events)
            /\ UNCHANGED panicked
    /\ UNCHANGED <<ret, pre, input, inserted, dfrees, regime>>

Create(priority) ==
    /\ next_pid <= MaxPid
    /\ LET r == create_process(Mgr, priority)
       IN Call(r,
               IF r.ok THEN allocated \cup {r.m.total_chain[r.val].pool_index}
               ELSE allocated)

Terminate(pid) ==
    LET r == terminate_process(Mgr, pid)
    IN Call(r,
            IF r.ok THEN allocated \ {total_chain[pid].pool_index} ELSE allocated)

TimeSliceExpired ==
    Call(time_slice_expired(Mgr), allocated)

Suspend(pid) == Call(suspend_process(Mgr, pid), allocated)

Activate(pid) == Call(activate_process(Mgr, pid), allocated)

Schedule ==
    /\ scheduler.current_time < MaxTime
    /\ Call(schedule(Mgr), allocated)

RunOneCycle ==
    /\ scheduler.current_time < MaxTime
    /\ Call(run_one_cycle(Mgr), allocated)

\* the state after ProcessManager::new, nothing called yet
Start ==
    /\ InitMgr(ManagerNew(RequestedSize))
    /\ overflow_checks = "unobserved"
    /\ panicked = FALSE
    /\ ret = Ret("new", None, None, FALSE, "", None)
    /\ allocated = {}
    /\ pre = [free_list |-> pcb_pool.free_list, used_count |-> 0]
    /\ ready_arrivals = <<>>
    /\ inserted = <<>>
    /\ dfrees = 0

Init ==
    /\ Start
    /\ input = <<>>
    /\ regime \in {"wide", "deep"}

Next ==
    \/ \E priority \in Priorities : Create(priority)
    \/ \E pid \in Pids : Terminate(pid)
    \/ TimeSliceExpired
    \/ \E pid \in Pids : Suspend(pid)
    \/ \E pid \in Pids : Activate(pid)
    \/ Schedule
    \/ RunOneCycle

\* the process manager driven by any sequence of its primitives
Spec == Init /\ [][Next]_vars

----------------------------------------------------------------------------
(* The allocator alone *)

\* one direct call of BuddySystem::allocate
Allocate ==
    /\ ~panicked
    /\ LET a == allocate(pcb_pool) IN
       /\ Profile(a.ovf)
       /\ IF overflow_checks' = "on" /\ a.ovf
          THEN /\ panicked' = TRUE
               /\ UNCHANGED <<pcb_pool, ret, allocated, pre>>
          ELSE /\ pcb_pool' = a.b
               /\ ret' = Ret("allocate", None, a.index, FALSE, ret.op, ret.val)
               /\ allocated' = allocated \cup {a.index[i] : i \in 1..Len(a.index)}
               /\ pre' = [free_list |-> pcb_pool.free_list,
                          used_count |-> pcb_pool.used_count]
               /\ UNCHANGED panicked
    /\ UNCHANGED <<total_chain, ready_queue, waiting_queue, running_queue, scheduler,
                   next_pid, ready_arrivals, input, inserted, dfrees, regime>>

\* one direct call of BuddySystem::deallocate
Deallocate(index) ==
    /\ ~panicked
    /\ LET d == deallocate(pcb_pool, index) IN
       /\ Profile(d.ovf)
       /\ IF overflow_checks' = "on" /\ d.ovf
          THEN /\ panicked' = TRUE
               /\ UNCHANGED <<pcb_pool, ret, allocated, dfrees>>
          ELSE /\ pcb_pool' = d.b
               /\ ret' = Ret("deallocate", Some(index), None, index \in allocated,
                               ret.op, ret.val)
               /\ allocated' = allocated \ {index}
               /\ dfrees' = IF index \in allocated THEN dfrees ELSE dfrees + 1
               /\ UNCHANGED panicked
    /\ UNCHANGED <<total_chain, ready_queue, waiting_queue, running_queue, scheduler,
                   next_pid, pre, ready_arrivals, input, inserted, regime>>

AllocInit ==
    /\ Start
    /\ input = <<>>
    /\ regime = "alloc"

AllocNext ==
    \/ Allocate
    \/ \E index \in allocated : Deallocate(index)

\* the allocator used as its callers must: only allocated slots are given back
AllocSpec == AllocInit /\ [][AllocNext]_vars

DoubleFreeNext ==
    \/ Allocate
    \/ \E index \in 0..pcb_pool.pool_size :
          /\ index \in allocated \/ dfrees < MaxDoubleFree
          /\ Deallocate(index)

\* the allocator with any index given back, allocated or not
DoubleFreeSpec == AllocInit /\ [][DoubleFreeNext]_vars

----------------------------------------------------------------------------
(* A queue filled by enqueue_by_priority alone *)

SortInputs == UNION {[1..n -> 1..MaxSortPriority] : n \in 0..MaxLen}

\* insert the next PCB of the input; the PCBs get the pids 1, 2, ... in insertion order
Insert ==
    /\ input # <<>>
    /\ LET pcb == [PCBNew(0, Len(inserted) + 1) EXCEPT !.priority = Head(input)] IN
       /\ ready_queue' = enqueue_by_priority(ready_queue, pcb)
       /\ inserted' = Append(inserted, pcb)
    /\ input' = Tail(input)
    /\ UNCHANGED <<pcb_pool, total_chain, waiting_queue, running_queue, scheduler,
                   next_pid, overflow_checks, panicked, ret, allocated, pre,
                   ready_arrivals, dfrees, regime>>

SortInit ==
    /\ Start
    /\ input \in SortInputs
    /\ regime = "sort"

SortNext == Insert

SortSpec == SortInit /\ [][SortNext]_vars

----------------------------------------------------------------------------
(* Properties of the allocator *)

\* the sum over the orders k >= from of (number of blocks in free list k) * 2^k
RECURSIVE FreeSlots(_, _)
FreeSlots(b, from) ==
    IF from > b.max_order THEN 0
    ELSE Len(b.free_list[from]) * 2 ^ from + FreeSlots(b, from + 1)

\* the free blocks, each as <<order, position in its list>>, and the slots one covers
FreeBlocks(b) == {<<k, i>> : k \in 0..b.max_order, i \in 1..b.pool_size} \cap
                 {blk \in (0..b.max_order) \X (1..b.pool_size) :
                      blk[2] <= Len(b.free_list[blk[1]])}
BlockStart(b, blk) == b.free_list[blk[1]][blk[2]]
Covered(b, blk) == BlockStart(b, blk)..(BlockStart(b, blk) + 2 ^ blk[1] - 1)

\* no index twice in one list or in two lists, and no slot covered by two free blocks
NoDoubleCover(b) ==
    \A x, y \in FreeBlocks(b) :
        x # y => /\ BlockStart(b, x) # BlockStart(b, y)
                 /\ Covered(b, x) \cap Covered(b, y) = {}

\* every free block is aligned to its size and lies inside the pool
Aligned(b) ==
    \A x \in FreeBlocks(b) :
        /\ BlockStart(b, x) % 2 ^ x[1] = 0
        /\ BlockStart(b, x) + 2 ^ x[1] <= b.pool_size

\* C1: after any sequence of manager primitives, used_count plus the slots of the free
\* blocks (list length * 2^order, summed over the orders) is pool_size.
C1_UsedPlusFreeIsPoolSize ==
    pcb_pool.used_count + FreeSlots(pcb_pool, 0) = pcb_pool.pool_size

\* C1 witness: processes were created and terminated, two are live, and the free
\* slots are two separate order-0 blocks.
C1_Witness ==
    /\ pcb_pool.used_count = 2
    /\ next_pid = 5
    /\ Len(pcb_pool.free_list[0]) = 2

\* C3: under allocate() and deallocate() of allocated slots the free blocks are aligned,
\* inside the pool, pairwise disjoint, listed once, and cover exactly the slots that
\* are not allocated.
C3_FreeBlocksPartitionFreeSlots ==
    /\ Aligned(pcb_pool)
    /\ NoDoubleCover(pcb_pool)
    /\ UNION {Covered(pcb_pool, x) : x \in FreeBlocks(pcb_pool)}
         = (0..(pcb_pool.pool_size - 1)) \ allocated

\* C3 witness: slots 1 and 2 are allocated, 0 and 3 were given back and cannot merge.
C3_Witness ==
    /\ allocated = {1, 2}
    /\ ret.op = "deallocate"
    /\ Len(pcb_pool.free_list[0]) = 2

\* C4: deallocate(s) right after the allocate() that returned s puts every free list
\* and used_count back to what they were before that allocate().
C4_AllocateThenDeallocateRestores ==
    (ret.op = "deallocate" /\ ret.prev_op = "allocate" /\ ret.prev_val = ret.arg)
        => /\ pcb_pool.free_list = pre.free_list
           /\ pcb_pool.used_count = pre.used_count

\* C4 witness: such a round trip in which allocate() had to split an order-1 block
\* (no order-0 block was free, two slots were in use) and the merge put it back.
C4_Witness ==
    /\ ret.op = "deallocate" /\ ret.prev_op = "allocate" /\ ret.prev_val = ret.arg
    /\ pre.free_list[0] = <<>>
    /\ pre.used_count = 2
    /\ pcb_pool.free_list[1] # <<>>

\* C5 (as claimed): deallocate() of a slot that is not allocated leaves no index twice
\* in the free lists and no slot covered by two free blocks.
C5_DoubleFreeKeepsFreeLists ==
    (ret.op = "deallocate" /\ ~ret.was_allocated) => NoDoubleCover(pcb_pool)

\* C6 (as claimed): deallocate() of a slot that is not allocated does not abort, leaves
\* used_count at least the number of allocated slots, and keeps used_count plus the
\* free slots equal to pool_size.
C6_DoubleFreeKeepsCount ==
    /\ ~panicked
    /\ (ret.op = "deallocate" /\ ~ret.was_allocated)
          => /\ pcb_pool.used_count >= Cardinality(allocated)
             /\ pcb_pool.used_count + FreeSlots(pcb_pool, 0) = pcb_pool.pool_size

----------------------------------------------------------------------------
(* Properties of the queues and of the manager *)

QueuePids(q) == {q.items[i].pid : i \in 1..Len(q.items)}
Occurrences(q, pid) == Cardinality({i \in 1..Len(q.items) : q.items[i].pid = pid})
\* the states of the copies of pid held in a queue
QueueStates(q, pid) == {q.items[i].state : i \in {j \in 1..Len(q.items) : q.items[j].pid = pid}}

\* C2: every pid of the Directory is in exactly one of the three queues, once, with the
\* state of its Directory copy; the queues hold no pid the Directory does not.
C2_OneQueuePerPid ==
    /\ \A pid \in DOMAIN total_chain :
          /\ Occurrences(ready_queue, pid) + Occurrences(waiting_queue, pid)
               + Occurrences(running_queue, pid) = 1
          /\ QueueStates(ready_queue, pid) \cup QueueStates(waiting_queue, pid)
               \cup QueueStates(running_queue, pid) = {total_chain[pid].state}
    /\ QueuePids(ready_queue) \cup QueuePids(waiting_queue) \cup QueuePids(running_queue)
         \subseteq DOMAIN total_chain

\* C2 witness: all three queues are in use and a process was terminated.
C2_Witness ==
    /\ ready_queue.items # <<>>
    /\ waiting_queue.items # <<>>
    /\ running_queue.items # <<>>
    /\ Cardinality(DOMAIN total_chain) < next_pid - 1

\* position of pid in the arrival order of the Ready queue
ArrivalPos(pid) == CHOOSE i \in 1..Len(ready_arrivals) : ready_arrivals[i] = pid

\* C7: the Ready queue is in non-increasing priority order from the head, and of two
\* entries of equal priority the one that entered the Ready queue earlier is nearer
\* the head.
C7_ReadySortedFifo ==
    /\ QueuePids(ready_queue) = {ready_arrivals[i] : i \in 1..Len(ready_arrivals)}
    /\ \A i, j \in 1..Len(ready_queue.items) :
          i < j => LET a == ready_queue.items[i]
                       b == ready_queue.items[j]
                   IN /\ a.priority >= b.priority
                      /\ a.priority = b.priority => ArrivalPos(a.pid) < ArrivalPos(b.pid)

\* C7 witness: two Ready entries of equal priority, the one created later ahead of the
\* other (it came back to Ready earlier), behind an entry of higher priority.
C7_Witness ==
    \E i, j, k \in 1..Len(ready_queue.items) :
        /\ i < j /\ j < k
        /\ ready_queue.items[i].priority > ready_queue.items[j].priority
        /\ ready_queue.items[j].priority = ready_queue.items[k].priority
        /\ ready_queue.items[j].pid > ready_queue.items[k].pid

\* the PCBs of seq with priority p, p-1, ..., 1, in that order of priority and, within
\* one priority, in the order of seq
RECURSIVE StableByPriority(_, _)
StableByPriority(seq, p) ==
    IF p = 0 THEN <<>>
    ELSE SelectSeq(seq, LAMBDA x : x.priority = p) \o StableByPriority(seq, p - 1)

\* C8: a queue filled from empty by enqueue_by_priority holds the inserted PCBs in the
\* order of the stable sort of the insertion sequence by descending priority.
C8_InsertionIsStableSort ==
    /\ ready_queue.items = StableByPriority(inserted, MaxSortPriority)
    /\ ready_queue.length = Len(inserted)

\* C8 witness: the priorities 3,1,4,1,5 were inserted and the queue holds them as
\* 5,4,3,1,1 with the first-inserted priority-1 PCB (pid 2) ahead of the other (pid 4).
C8_Witness ==
    /\ input = <<>>
    /\ [i \in 1..Len(inserted) |-> inserted[i].priority] = <<3, 1, 4, 1, 5>>
    /\ [i \in 1..Len(ready_queue.items) |-> ready_queue.items[i].pid] = <<5, 3, 1, 2, 4>>

\* C9: Create fails exactly when every slot of the pool holds a live process, it then
\* returns PoolExhausted, and it never aborts; in a pool of 4, Create succeeds for the
\* first four processes and fails for the fifth.
C9_CreateFailsIffPoolFull ==
    /\ ~panicked
    /\ \A priority \in Priorities :
          LET r == create_process(Mgr, priority) IN
          /\ ~r.ovf
          /\ ~r.ok <=> Cardinality(DOMAIN total_chain) = pcb_pool.pool_size
          /\ ~r.ok <=> pcb_pool.used_count = pcb_pool.pool_size
          /\ ~r.ok => r.err = "PoolExhausted"
          /\ r.ok => r.val = next_pid

\* C9 witness: a pool of 4, the Creates of pids 1..4 succeeded and the next Create fails.
C9_Witness ==
    /\ pcb_pool.pool_size = 4
    /\ DOMAIN total_chain = 1..4
    /\ next_pid = 5
    /\ ~create_process(Mgr, 1).ok

\* the pids the primitives are tried with: the pids ever offered, and two never created
TriedPids == 0..(MaxPid + 1)

\* C10: a primitive that returns an error leaves the manager as it was, in each of the
\* cases that make one fail.
C10_FailureChangesNothing ==
    /\ \A priority \in Priorities :
          LET r == create_process(Mgr, priority) IN
          /\ pcb_pool.used_count = pcb_pool.pool_size => ~r.ok
          /\ ~r.ok => r.m = Mgr
    /\ \A pid \in TriedPids :
          /\ LET r == terminate_process(Mgr, pid) IN
             /\ pid \notin DOMAIN total_chain => ~r.ok
             /\ ~r.ok => r.m = Mgr
          /\ LET r == suspend_process(Mgr, pid) IN
             /\ pid \notin DOMAIN total_chain => ~r.ok
             /\ pid \notin QueuePids(ready_queue) \cup QueuePids(running_queue) => ~r.ok
             /\ ~r.ok => r.m = Mgr
          /\ LET r == activate_process(Mgr, pid) IN
             /\ pid \notin QueuePids(waiting_queue) => ~r.ok
             /\ ~r.ok => r.m = Mgr
    /\ LET r == time_slice_expired(Mgr) IN
       /\ running_queue.items = <<>> => ~r.ok
       /\ ~r.ok => r.m = Mgr
    /\ LET r == schedule(Mgr) IN
       /\ (ready_queue.items = <<>> /\ running_queue.items = <<>>) => ~r.ok
       /\ ~r.ok => r.m = Mgr

\* C10 witness: the pool is full and every process is Waiting after one was dispatched,
\* so that Create, Terminate and Activate of an unknown pid, Suspend of a Waiting pid,
\* TimeSliceExpired and Schedule all fail.
C10_Witness ==
    /\ pcb_pool.used_count = pcb_pool.pool_size
    /\ ready_queue.items = <<>> /\ running_queue.items = <<>>
    /\ Len(waiting_queue.items) = pcb_pool.pool_size
    /\ scheduler.total_switches > 0
    /\ ~create_process(Mgr, 1).ok
    /\ ~suspend_process(Mgr, waiting_queue.items[1].pid).ok
    /\ ~schedule(Mgr).ok

----------------------------------------------------------------------------
(* Properties of the single primitives, evaluated in every reachable state *)

\* the items of a queue without those of pid
Without(q, pid) == SelectSeq(q.items, LAMBDA x : x.pid # pid)
\* the slots covered by the free blocks of an allocator
FreeCover(b) == UNION {Covered(b, x) : x \in FreeBlocks(b)}

\* C11: Terminate of a live process, in whichever queue, succeeds, takes the process out
\* of the Directory and of its queue (leaving the other entries as they were), lowers
\* used_count by one and makes the slot part of a free block; with the pool full, the
\* Create that follows succeeds and is given that slot.
C11_TerminateFreesSlot ==
    \A pid \in DOMAIN total_chain :
        LET r    == terminate_process(Mgr, pid)
            slot == total_chain[pid].pool_index
        IN /\ r.ok /\ ~r.ovf
           /\ DOMAIN r.m.total_chain = (DOMAIN total_chain) \ {pid}
           /\ r.m.ready_queue.items = Without(ready_queue, pid)
           /\ r.m.waiting_queue.items = Without(waiting_queue, pid)
           /\ r.m.running_queue.items = Without(running_queue, pid)
           /\ r.m.pcb_pool.used_count = pcb_pool.used_count - 1
           /\ slot \notin FreeCover(pcb_pool)
           /\ slot \in FreeCover(r.m.pcb_pool)
           /\ r.m.pcb_pool.pool[slot] = None
           /\ pcb_pool.used_count = pcb_pool.pool_size =>
                 \A priority \in Priorities :
                     LET c == create_process(r.m, priority)
                     IN /\ c.ok
                        /\ c.m.total_chain[c.val].pool_index = slot
                        /\ c.m.pcb_pool.used_count = pcb_pool.pool_size

\* C11 witness: the pool is full, all three queues are in use, and the Waiting process
\* is terminated: the Create after it gets its slot.
C11_Witness ==
    /\ pcb_pool.used_count = pcb_pool.pool_size
    /\ ready_queue.items # <<>> /\ running_queue.items # <<>>
    /\ waiting_queue.items # <<>>
    /\ ~create_process(Mgr, 1).ok
    /\ LET pid == waiting_queue.items[1].pid
           r   == terminate_process(Mgr, pid)
           c   == create_process(r.m, 1)
       IN /\ r.ok
          /\ r.m.waiting_queue.items = Tail(waiting_queue.items)
          /\ c.ok
          /\ c.m.total_chain[c.val].pool_index = total_chain[pid].pool_index

\* the pids of a queue from head to tail
PidsOf(q) == [i \in 1..Len(q.items) |-> q.items[i].pid]

\* the example of C12: pid 1 of priority 5 and pid 2 of priority 3 created, then Schedule
ScheduleExample ==
    LET m == create_process(create_process(ManagerNew(RequestedSize), 5).m, 3).m
        r == schedule(m)
    IN /\ PidsOf(m.ready_queue) = <<1, 2>> /\ m.running_queue.items = <<>>
       /\ r.ok
       /\ PidsOf(r.m.running_queue) = <<1>>
       /\ r.m.running_queue.items[1].state = "Running"
       /\ r.m.total_chain[1].state = "Running"
       /\ r.m.scheduler.total_switches = 1
       /\ PidsOf(r.m.ready_queue) = <<2>>

\* C12: Schedule with Running empty and Ready not empty succeeds and moves the head of
\* Ready, which has the highest priority and among equals entered Ready first, to
\* Running with state Running in the queue copy and the Directory copy; the switch
\* counter grows by one, the rest of Ready keeps its order, nothing else changes.
C12_ScheduleDispatchesHead ==
    /\ ScheduleExample
    /\ (running_queue.items = <<>> /\ ready_queue.items # <<>>) =>
          LET r    == schedule(Mgr)
              head == ready_queue.items[1]
          IN /\ r.ok /\ ~r.ovf
             /\ \A i \in 1..Len(ready_queue.items) :
                    LET x == ready_queue.items[i]
                    IN /\ head.priority >= x.priority
                       /\ head.priority = x.priority
                             => ArrivalPos(head.pid) <= ArrivalPos(x.pid)
             /\ r.m.running_queue.items = <<[head EXCEPT !.state = "Running"]>>
             /\ r.m.running_queue.length = 1
             /\ r.m.total_chain = [total_chain EXCEPT ![head.pid].state = "Running"]
             /\ r.m.scheduler.total_switches = scheduler.total_switches + 1
             /\ r.m.ready_queue.items = Tail(ready_queue.items)
             /\ r.m.ready_queue.length = ready_queue.length - 1
             /\ r.m.waiting_queue = waiting_queue
             /\ r.m.pcb_pool = pcb_pool
             /\ r.m.next_pid = next_pid

\* C12 witness: the first Schedule has run on Ready = [pid 1 (priority 2), pid 2
\* (priority 1), pid 3 (priority 1)]: pid 1 is Running, one switch, pid 2 heads Ready.
C12_Witness ==
    /\ scheduler.total_switches = 1
    /\ scheduler.total_executed = 1
    /\ PidsOf(running_queue) = <<1>>
    /\ running_queue.items[1].state = "Running" /\ running_queue.items[1].priority = 2
    /\ total_chain[1].state = "Running"
    /\ PidsOf(ready_queue) = <<2, 3>>
    /\ ready_queue.items[1].priority = 1

\* the manager after n calls of run_one_cycle in a row
RECURSIVE Cycles(_, _)
Cycles(m, n) == IF n = 0 THEN m ELSE Cycles(run_one_cycle(m).m, n - 1)

\* a queue sorted by priority with pcb put behind the entries of its priority or more
PlacedByPriority(items, pcb) ==
    SelectSeq(items, LAMBDA x : x.priority >= pcb.priority) \o <<pcb>>
        \o SelectSeq(items, LAMBDA x : x.priority < pcb.priority)

\* C13: with a process Running that has r ticks left, the first r - 1 calls of
\* RunOneCycle in a row only count it down (in both copies, no switch recorded, Ready
\* untouched); the r-th call expires the time slice, once: Running is empty, one switch
\* is recorded, and the process is in Ready behind the entries of its priority or more
\* and ahead of the lower ones, with state Ready and 5 ticks in both copies.
C13_ExpiryOnLastTick ==
    running_queue.items # <<>> =>
        LET p    == running_queue.items[1]
            r    == p.remaining_time
            back == [p EXCEPT !.state = "Ready", !.remaining_time = DefaultQuantum]
            last == Cycles(Mgr, r)
        IN /\ r >= 1
           /\ \A k \in 1..(r - 1) :
                  LET mk == Cycles(Mgr, k)
                  IN /\ mk.running_queue.items = <<[p EXCEPT !.remaining_time = r - k]>>
                     /\ mk.total_chain
                          = [total_chain EXCEPT ![p.pid].remaining_time = r - k]
                     /\ mk.scheduler = scheduler
                     /\ mk.ready_queue = ready_queue
           /\ last.running_queue.items = <<>>
           /\ last.scheduler.total_switches = scheduler.total_switches + 1
           /\ last.ready_queue.items = PlacedByPriority(ready_queue.items, back)
           /\ last.total_chain
                = [total_chain EXCEPT ![p.pid].state = "Ready",
                                      ![p.pid].remaining_time = DefaultQuantum]
           /\ total_chain[p.pid].state = "Running"
           /\ last.waiting_queue = waiting_queue

\* C13 witness: a process dispatched with 5 ticks has been counted down to its last
\* one by RunOneCycle, and Ready holds an entry of its priority: the next RunOneCycle
\* expires the slice and puts the process behind that entry.
C13_Witness ==
    /\ running_queue.items # <<>>
    /\ running_queue.items[1].remaining_time = 1
    /\ \E i \in 1..Len(ready_queue.items) :
          ready_queue.items[i].priority = running_queue.items[1].priority
    /\ LET m == Cycles(Mgr, 1)
       IN /\ m.running_queue.items = <<>>
          /\ m.ready_queue.items[Len(m.ready_queue.items)].pid = running_queue.items[1].pid
          /\ m.ready_queue.items[Len(m.ready_queue.items)].remaining_time = DefaultQuantum

\* the copy of pid held in a queue that holds it
CopyIn(q, pid) == q.items[PidPosition(q.items, pid)]

\* C14: Suspend(pid) succeeds exactly when pid is in Ready or Running; it then takes
\* the entry out of that queue and appends it to Waiting with state Waiting in the queue
\* copy and the Directory copy, and changes nothing else. A pid that is not in the
\* Directory gives NoSuchProcess, a pid of the Directory that is Waiting gives
\* NotReadyOrRunning.
C14_SuspendContract ==
    \A pid \in TriedPids :
        LET r          == suspend_process(Mgr, pid)
            in_ready   == pid \in QueuePids(ready_queue)
            in_running == pid \in QueuePids(running_queue)
        IN /\ r.ok <=> (in_ready \/ in_running)
           /\ ~r.ovf
           /\ pid \notin DOMAIN total_chain => (~r.ok /\ r.err = "NoSuchProcess")
           /\ (pid \in DOMAIN total_chain /\ pid \in QueuePids(waiting_queue))
                 => (~r.ok /\ r.err = "NotReadyOrRunning")
           /\ (~r.ok /\ pid \in DOMAIN total_chain) => r.err = "NotReadyOrRunning"
           /\ r.ok =>
                 LET old == IF in_ready THEN CopyIn(ready_queue, pid)
                            ELSE CopyIn(running_queue, pid)
                     new == [old EXCEPT !.state = "Waiting"]
                 IN /\ r.m.ready_queue.items = Without(ready_queue, pid)
                    /\ r.m.running_queue.items = Without(running_queue, pid)
                    /\ r.m.waiting_queue.items = Append(waiting_queue.items, new)
                    /\ r.m.waiting_queue.length = waiting_queue.length + 1
                    /\ r.m.total_chain = [total_chain EXCEPT ![pid].state = "Waiting"]
                    /\ r.m.total_chain[pid] = new
                    /\ r.m.pcb_pool = pcb_pool
                    /\ r.m.scheduler = scheduler
                    /\ r.m.next_pid = next_pid

\* C14 witness: Waiting holds pid 2 (priority 1) ahead of pid 1 (priority 2), the order
\* in which they were suspended; pid 3 is Running with ticks used and pid 4 is Ready,
\* so Suspend succeeds from either queue and goes behind pid 1.
C14_Witness ==
    /\ PidsOf(waiting_queue) = <<2, 1>>
    /\ waiting_queue.items[1].priority = 1 /\ waiting_queue.items[2].priority = 2
    /\ PidsOf(running_queue) = <<3>>
    /\ PidsOf(ready_queue) = <<4>>
    /\ PidsOf(suspend_process(Mgr, 3).m.waiting_queue) = <<2, 1, 3>>
    /\ PidsOf(suspend_process(Mgr, 4).m.waiting_queue) = <<2, 1, 4>>
    /\ suspend_process(Mgr, 1).err = "NotReadyOrRunning"

\* C15: Activate(pid) succeeds exactly when pid is in Waiting; it then takes the entry
\* out of Waiting and puts it into Ready behind the entries of its priority or more and
\* ahead of the lower ones, with state Ready in the queue copy and the Directory copy,
\* and changes nothing else. For every other pid (Ready, Running, unknown) it fails
\* with NotWaiting.
C15_ActivateContract ==
    \A pid \in TriedPids :
        LET r == activate_process(Mgr, pid)
        IN /\ r.ok <=> pid \in QueuePids(waiting_queue)
           /\ ~r.ovf
           /\ ~r.ok => r.err = "NotWaiting"
           /\ (pid \in QueuePids(ready_queue) \cup QueuePids(running_queue)
                  \/ pid \notin DOMAIN total_chain) => ~r.ok
           /\ r.ok =>
                 LET new == [CopyIn(waiting_queue, pid) EXCEPT !.state = "Ready"]
                 IN /\ r.m.waiting_queue.items = Without(waiting_queue, pid)
                    /\ r.m.waiting_queue.length = waiting_queue.length - 1
                    /\ r.m.ready_queue.items = PlacedByPriority(ready_queue.items, new)
                    /\ r.m.ready_queue.length = ready_queue.length + 1
                    /\ r.m.total_chain = [total_chain EXCEPT ![pid].state = "Ready"]
                    /\ r.m.total_chain[pid] = new
                    /\ r.m.running_queue = running_queue
                    /\ r.m.pcb_pool = pcb_pool
                    /\ r.m.scheduler = scheduler
                    /\ r.m.next_pid = next_pid

\* C15 witness: a Waiting process of priority 2 while Ready holds an entry of priority
\* 2 and one of priority 1: Activate puts it between the two.
C15_Witness ==
    /\ Len(waiting_queue.items) = 2
    /\ waiting_queue.items[2].priority = 2
    /\ Len(ready_queue.items) = 2
    /\ ready_queue.items[1].priority = 2 /\ ready_queue.items[2].priority = 1
    /\ LET pid == waiting_queue.items[2].pid
           r   == activate_process(Mgr, pid)
       IN /\ r.ok
          /\ r.m.ready_queue.items[2].pid = pid
          /\ PidsOf(r.m.waiting_queue) = <<waiting_queue.items[1].pid>>

\* the pids in use: every live pid is positive, below next_pid and held once, and the
\* next Create, when it succeeds, returns next_pid and moves it on by one, and when it
\* fails leaves it alone
PidsInUse ==
    /\ next_pid >= 1
    /\ \A pid \in DOMAIN total_chain :
          /\ pid >= 1 /\ pid < next_pid
          /\ total_chain[pid].pid = pid
          /\ Occurrences(ready_queue, pid) + Occurrences(waiting_queue, pid)
               + Occurrences(running_queue, pid) = 1
    /\ \A priority \in Priorities :
          LET r == create_process(Mgr, priority)
          IN /\ r.ok => /\ r.val = next_pid /\ r.val >= 1
                         /\ r.val \notin DOMAIN total_chain
                         /\ r.m.next_pid = next_pid + 1
             /\ ~r.ok => r.m.next_pid = next_pid

\* one step: next_pid never goes back, the only pid that can appear in the Directory
\* is next_pid, and next_pid moves, by one, exactly when a pid appears
PidStep ==
    LET born == (DOMAIN total_chain') \ (DOMAIN total_chain)
    IN /\ next_pid' >= next_pid
       /\ born \subseteq {next_pid}
       /\ next_pid' = IF born = {} THEN next_pid ELSE next_pid + 1

\* C16: the pids given out by Create are positive and strictly increasing over the
\* run: no pid is given out twice, also not after its process was terminated, no two
\* live processes have the same pid, and a Create that fails uses up no pid.
C16_PidsFreshAndIncreasing == []PidsInUse /\ [][PidStep]_vars

\* C16 witness: pid 1 was terminated and the Create after it got pid 3 with the slot
\* of pid 1, not pid 1 again.
C16_Witness ==
    /\ DOMAIN total_chain = {2, 3}
    /\ total_chain[3].pool_index = 0
    /\ total_chain[2].pool_index = 1
    /\ next_pid = 4

\* the slots of the live processes
LiveSlots == {total_chain[pid].pool_index : pid \in DOMAIN total_chain}
\* the copies of pid held in the three queues
QueueCopies(pid) ==
    UNION {{q.items[i] : i \in {j \in 1..Len(q.items) : q.items[j].pid = pid}} :
              q \in {ready_queue, waiting_queue, running_queue}}

\* every live process holds a slot of the pool that is allocated (handed out and not
\* given back, outside every free block), that still stores the PCB written there at
\* its creation, and that no other live process holds; allocate() would not return it
SlotsInUse ==
    /\ \A pid \in DOMAIN total_chain :
          LET slot == total_chain[pid].pool_index
          IN /\ slot < pcb_pool.pool_size
             /\ slot \in allocated
             /\ slot \notin FreeCover(pcb_pool)
             /\ pcb_pool.pool[slot] # None
             /\ pcb_pool.pool[slot][1].pid = pid
             /\ pcb_pool.pool[slot][1].pool_index = slot
             /\ \A copy \in QueueCopies(pid) : copy.pool_index = slot
             /\ \A other \in (DOMAIN total_chain) \ {pid} :
                    total_chain[other].pool_index # slot
    /\ Cardinality(LiveSlots) = pcb_pool.used_count
    /\ LET a == allocate(pcb_pool)
       IN a.index # None => a.index[1] \notin LiveSlots

\* one step: a process that stays alive keeps its slot, and a process that appears
\* holds the slot allocate() returned for it
SlotStep ==
    /\ \A pid \in (DOMAIN total_chain) \cap (DOMAIN total_chain') :
          total_chain'[pid].pool_index = total_chain[pid].pool_index
    /\ \A pid \in (DOMAIN total_chain') \ (DOMAIN total_chain) :
          total_chain'[pid].pool_index = allocate(pcb_pool).index[1]

\* C17: in every reachable state the pool_index of each live process, in its Directory
\* copy and its queue copy, is the slot it was given at creation, is allocated, and is
\* the pool_index of no other live process; allocate() never returns the slot of a
\* live process.
C17_SlotFixedAndExclusive == []SlotsInUse /\ [][SlotStep]_vars

\* C17 witness: pids 1..3 got the slots 0..2, pid 2 was terminated and pid 4 got its
\* slot 1 while pids 1 and 3, moved between the queues since, still hold 0 and 2.
C17_Witness ==
    /\ DOMAIN total_chain = {1, 3, 4}
    /\ total_chain[1].pool_index = 0
    /\ total_chain[3].pool_index = 2
    /\ total_chain[4].pool_index = 1
    /\ total_chain[1].state = "Waiting"
    /\ total_chain[3].state = "Running"

\* in the manager m, every queue entry is the Directory copy of its pid, field by field
Mirrored(m) ==
    \A q \in {m.ready_queue, m.waiting_queue, m.running_queue} :
        \A i \in 1..Len(q.items) :
            LET x == q.items[i]
            IN /\ x.pid \in DOMAIN m.total_chain
               /\ x.priority = m.total_chain[x.pid].priority
               /\ x.state = m.total_chain[x.pid].state
               /\ x.remaining_time = m.total_chain[x.pid].remaining_time
               /\ x.pool_index = m.total_chain[x.pid].pool_index
               /\ x = m.total_chain[x.pid]

\* C18: between primitives the queue copy of every live pid equals its Directory copy
\* in priority, state, remaining_time and pool_index: in every reachable state, and in
\* the state every primitive would leave from it.
C18_CopiesEqual ==
    /\ Mirrored(Mgr)
    /\ \A pid \in DOMAIN total_chain : QueueCopies(pid) = {total_chain[pid]}
    /\ Mirrored(run_one_cycle(Mgr).m)
    /\ Mirrored(schedule(Mgr).m)
    /\ Mirrored(time_slice_expired(Mgr).m)
    /\ \A priority \in Priorities : Mirrored(create_process(Mgr, priority).m)
    /\ \A pid \in TriedPids :
          /\ Mirrored(suspend_process(Mgr, pid).m)
          /\ Mirrored(activate_process(Mgr, pid).m)
          /\ Mirrored(terminate_process(Mgr, pid).m)

\* C18 witness: a process was suspended while Running with ticks used and another,
\* dispatched after it, has been counted down to 2: both copies of each carry the count.
C18_Witness ==
    /\ running_queue.items # <<>> /\ waiting_queue.items # <<>>
    /\ running_queue.items[1].remaining_time = 2
    /\ total_chain[running_queue.items[1].pid].remaining_time = 2
    /\ waiting_queue.items[1].remaining_time = 3
    /\ total_chain[waiting_queue.items[1].pid].remaining_time = 3
    /\ scheduler.total_switches >= 2

\* the errors a primitive can return
Errors == {"PoolExhausted", "NoSuchProcess", "NoRunningProcess", "NotReadyOrRunning",
           "NotWaiting", "ReadyQueueEmpty", "RunningQueueAbnormal"}

\* a call ended as a value: Ok, or one of the errors, with no arithmetic overflow or
\* underflow on the way
Returned(r) == ~r.ovf /\ (r.ok \/ r.err \in Errors)

\* C19: no run of the primitives aborts the program. No panic has happened; every
\* counter that a primitive decrements is above zero when it does (a queue's length is
\* its number of nodes, used_count is the number of live processes, a Running process
\* has at least one tick left); and every primitive, called with any input in any
\* reachable state, returns Ok or an error value without overflow or underflow.
C19_NoAbort ==
    /\ ~panicked /\ overflow_checks = "unobserved"
    /\ \A q \in {ready_queue, waiting_queue, running_queue} : q.length = Len(q.items)
    /\ pcb_pool.used_count = Cardinality(DOMAIN total_chain)
    /\ \A i \in 1..Len(running_queue.items) : running_queue.items[i].remaining_time >= 1
    /\ \A pid \in DOMAIN total_chain : total_chain[pid].pool_index < pcb_pool.pool_size
    /\ \A priority \in Priorities : Returned(create_process(Mgr, priority))
    /\ \A pid \in TriedPids :
          /\ Returned(terminate_process(Mgr, pid))
          /\ Returned(suspend_process(Mgr, pid))
          /\ Returned(activate_process(Mgr, pid))
    /\ Returned(time_slice_expired(Mgr))
    /\ Returned(schedule(Mgr))
    /\ Returned(run_one_cycle(Mgr))

\* C19 witness: every decrement is at its last step. The one live process is Running
\* with one tick left: RunOneCycle takes remaining_time to 0, Terminate takes
\* used_count and the queue length to 0, and the calls that cannot succeed (Activate,
\* Suspend and Terminate of a pid that is gone) come back as errors.
C19_Witness ==
    /\ pcb_pool.used_count = 1
    /\ running_queue.length = 1
    /\ running_queue.items[1].remaining_time = 1
    /\ next_pid > 2
    /\ LET pid == running_queue.items[1].pid
           t   == terminate_process(Mgr, pid)
       IN /\ t.ok /\ t.m.pcb_pool.used_count = 0 /\ t.m.running_queue.length = 0
          /\ ~terminate_process(t.m, pid).ok
          /\ ~time_slice_expired(t.m).ok
          /\ ~activate_process(Mgr, pid).ok
          /\ run_one_cycle(Mgr).m.running_queue.items = <<>>

\* the lowest order whose free list, in the lists fl of orders 0..top, is not empty
LowestFreeOrder(fl, top) ==
    CHOOSE k \in 0..top : fl[k] # <<>> /\ \A j \in 0..(k - 1) : fl[j] = <<>>

\* C20: an allocate() that succeeds takes a block of the lowest order k that has a free
\* block and returns its start i; when k > 0 the free lists gain exactly the blocks
\* (k-1, i + 2^(k-1)), ..., (0, i + 1), one per order below k and each once, list k
\* loses the block taken and nothing else, and the lists above k are unchanged.
C20_AllocateSplitsDown ==
    (ret.op = "allocate" /\ ret.val # None) =>
        LET top == pcb_pool.max_order
            k   == LowestFreeOrder(pre.free_list, top)
            i   == ret.val[1]
        IN /\ \E j \in 0..top : pre.free_list[j] # <<>>
           /\ Contains(pre.free_list[k], i)
           /\ \A j \in 0..top :
                  pcb_pool.free_list[j] =
                      IF j < k THEN <<i + 2 ^ j>>
                      ELSE IF j = k
                           THEN RemoveAt(pre.free_list[k], Position(pre.free_list[k], i))
                           ELSE pre.free_list[j]
           /\ Len(pcb_pool.free_list[k]) = Len(pre.free_list[k]) - 1
           /\ pcb_pool.used_count = pre.used_count + 1

\* C20 witness: slots 0 and 1 are taken and the only free block is (order 1, start 2):
\* allocate() returned 2 and pushed the single block (order 0, start 3).
C20_Witness ==
    /\ ret.op = "allocate" /\ ret.val = Some(2)
    /\ pre.free_list[0] = <<>> /\ pre.free_list[1] = <<2>>
    /\ pcb_pool.free_list[0] = <<3>> /\ pcb_pool.free_list[1] = <<>>

----------------------------------------------------------------------------
(* Properties of merging, scheduling order and the counters *)

\* no block below the top order is free together with its buddy of the same order
NoFreeBuddies(b) ==
    \A k \in 0..(b.max_order - 1) :
        \A i, j \in 1..Len(b.free_list[k]) :
            b.free_list[k][j] # BuddyOf(b.free_list[k][i], k)

\* C21: merging on release is complete. Whenever no process is live, after Creates and
\* Terminates in any order, the free lists are those of a new pool, the one block of
\* order max_order at 0 and every lower list empty; and at no time are a block below
\* max_order and its buddy both free.
C21_MergingIsComplete ==
    /\ NoFreeBuddies(pcb_pool)
    /\ (DOMAIN total_chain = {} /\ allocated = {}) =>
          /\ pcb_pool.free_list = BuddyNew(RequestedSize).free_list
          /\ pcb_pool.free_list[pcb_pool.max_order] = <<0>>
          /\ \A k \in 0..(pcb_pool.max_order - 1) : pcb_pool.free_list[k] = <<>>
    /\ \A pid \in DOMAIN total_chain :
          NoFreeBuddies(terminate_process(Mgr, pid).m.pcb_pool)

\* C21 witness: four processes filled the pool and all were terminated, in any of the
\* orders the run allows; the last release merged at order 0 and again at order 1.
C21_Witness ==
    /\ next_pid = 5
    /\ DOMAIN total_chain = {}
    /\ pcb_pool.used_count = 0
    /\ pcb_pool.pool_size = 4
    /\ pcb_pool.free_list[2] = <<0>>

\* no entry of the queue q has a priority above p
NoneAbove(q, p) == \A i \in 1..Len(q.items) : q.items[i].priority <= p

\* C22 (as claimed): whenever a process is Running, no Ready process has a strictly
\* higher priority than it.
C22_NoHigherPriorityReady ==
    running_queue.items # <<>> => NoneAbove(ready_queue, running_queue.items[1].priority)

\* C22 (amended): priority decides at dispatch only, and only the end of the time slice
\* takes a process out of Running for another. When Schedule or RunOneCycle dispatches
\* (Running was empty), no process left in Ready has a strictly higher priority than
\* the one dispatched. While a process is Running, Create, Activate and Schedule leave
\* the Running queue as it is, also when a process of higher priority becomes Ready.
C22_PriorityDecidesAtDispatch ==
    /\ (running_queue.items = <<>> /\ ready_queue.items # <<>>) =>
          LET r    == schedule(Mgr)
              head == ready_queue.items[1]
              c    == run_one_cycle(Mgr)
          IN /\ r.ok
             /\ PidsOf(r.m.running_queue) = <<head.pid>>
             /\ NoneAbove(r.m.ready_queue, r.m.running_queue.items[1].priority)
             /\ NoneAbove(ready_queue, head.priority)
             /\ head.pid \in QueuePids(c.m.running_queue) \cup QueuePids(c.m.ready_queue)
             /\ c.m.scheduler.total_executed = scheduler.total_executed + 1
    /\ running_queue.items # <<>> =>
          /\ \A priority \in Priorities :
                LET r == create_process(Mgr, priority)
                IN /\ r.m.running_queue = running_queue
                   /\ r.ok => r.m.total_chain[r.val].state = "Ready"
          /\ \A pid \in TriedPids :
                LET r == activate_process(Mgr, pid)
                IN /\ r.m.running_queue = running_queue
                   /\ r.ok => r.m.total_chain[pid].state = "Ready"
          /\ schedule(Mgr).ok
          /\ schedule(Mgr).m.running_queue = running_queue
          /\ schedule(Mgr).m.ready_queue = ready_queue

\* C22 witness: a process of priority 1 is Running and one of priority 2, created
\* after the dispatch, heads Ready; Schedule leaves both where they are, and once the
\* time slice is over the next Schedule dispatches the process of priority 2.
C22_Witness ==
    /\ running_queue.items # <<>> /\ ready_queue.items # <<>>
    /\ running_queue.items[1].priority = 1
    /\ ready_queue.items[1].priority = 2
    /\ ready_queue.items[1].pid > running_queue.items[1].pid
    /\ schedule(Mgr).m.running_queue = running_queue
    /\ LET s == schedule(time_slice_expired(Mgr).m)
       IN PidsOf(s.m.running_queue) = <<ready_queue.items[1].pid>>

\* the pids dispatched (taken from Ready to Running) by n calls of run_one_cycle in a
\* row, in the order of dispatch
RECURSIVE Dispatches(_, _)
Dispatches(m, n) ==
    IF n = 0 THEN <<>>
    ELSE LET r    == run_one_cycle(m)
             left == SelectSeq(r.events, LAMBDA e : e.kind = "leave")
         IN [i \in 1..Len(left) |-> left[i].pid] \o Dispatches(r.m, n - 1)

\* the processes that can run (Ready or Running) and those of the highest priority
Runnable(m) == {m.ready_queue.items[i] : i \in 1..Len(m.ready_queue.items)} \cup
               {m.running_queue.items[i] : i \in 1..Len(m.running_queue.items)}
TopGroup(m) == {x.pid : x \in {y \in Runnable(m) :
                                  \A z \in Runnable(m) : z.priority <= y.priority}}

\* enough calls of run_one_cycle for every process of the highest priority to be
\* dispatched twice, a time slice being at most DefaultQuantum calls
RotationCycles(m) == DefaultQuantum * (2 * Cardinality(TopGroup(m)) + 1)

\* the dispatches to look at: the process now Running, when it is of the highest
\* priority, and after it those of the calls of run_one_cycle
Rotation(m) ==
    (IF m.running_queue.items # <<>> /\ m.running_queue.items[1].pid \in TopGroup(m)
     THEN <<m.running_queue.items[1].pid>> ELSE <<>>)
        \o Dispatches(m, RotationCycles(m))

\* C23: a process whose time slice expires goes behind the Ready processes of its
\* priority, so under RunOneCycle alone the processes of the highest priority take
\* turns: only they are dispatched, and each of them is dispatched once before any of
\* them is dispatched again (any run of as many dispatches as there are such
\* processes names each of them once).
C23_EqualsTakeTurns ==
    LET G == TopGroup(Mgr)
        D == Rotation(Mgr)
    IN /\ G # {} => Len(D) >= 2 * Cardinality(G)
       /\ \A i \in 1..Len(D) : D[i] \in G
       /\ \A i, j \in 1..Len(D) : (i < j /\ j - i < Cardinality(G)) => D[i] # D[j]
       /\ running_queue.items # <<>> =>
             LET p == running_queue.items[1]
                 t == time_slice_expired(Mgr)
                 at == PidPosition(t.m.ready_queue.items, p.pid)
             IN \A i \in 1..Len(t.m.ready_queue.items) :
                    (i # at /\ t.m.ready_queue.items[i].priority = p.priority) => i < at

\* C23 witness: pid 1 is Running and pids 2 and 3 are Ready, all of priority 2, with
\* pid 4 of priority 1 behind them: RunOneCycle alone dispatches 2, 3, 1, 2, 3, 1 and
\* never pid 4.
C23_Witness ==
    /\ PidsOf(running_queue) = <<1>>
    /\ PidsOf(ready_queue) = <<2, 3, 4>>
    /\ TopGroup(Mgr) = {1, 2, 3}
    /\ SubSeq(Rotation(Mgr), 1, 7) = <<1, 2, 3, 1, 2, 3, 1>>

\* C24: the Running queue never holds more than one process. Schedule puts a process
\* into Running only when Running is empty (with a process Running it changes neither
\* queue), and no other primitive adds to Running: each leaves in it only pids that
\* were there.
C24_AtMostOneRunning ==
    /\ Len(running_queue.items) <= 1
    /\ running_queue.length <= 1
    /\ Cardinality({pid \in DOMAIN total_chain : total_chain[pid].state = "Running"}) <= 1
    /\ Len(schedule(Mgr).m.running_queue.items) <= 1
    /\ Len(run_one_cycle(Mgr).m.running_queue.items) <= 1
    /\ running_queue.items # <<>> =>
          /\ schedule(Mgr).m.running_queue = running_queue
          /\ schedule(Mgr).m.ready_queue = ready_queue
    /\ QueuePids(time_slice_expired(Mgr).m.running_queue) \subseteq QueuePids(running_queue)
    /\ \A priority \in Priorities :
          QueuePids(create_process(Mgr, priority).m.running_queue)
              \subseteq QueuePids(running_queue)
    /\ \A pid \in TriedPids :
          /\ QueuePids(terminate_process(Mgr, pid).m.running_queue)
                \subseteq QueuePids(running_queue)
          /\ QueuePids(suspend_process(Mgr, pid).m.running_queue)
                \subseteq QueuePids(running_queue)
          /\ QueuePids(activate_process(Mgr, pid).m.running_queue)
                \subseteq QueuePids(running_queue)

\* C24 witness: Schedule was called a second time while the process it dispatched was
\* Running and another waited in Ready: one tick more, one switch, still one Running.
C24_Witness ==
    /\ scheduler.total_executed = 2
    /\ scheduler.total_switches = 1
    /\ Len(running_queue.items) = 1
    /\ running_queue.items[1].remaining_time = DefaultQuantum
    /\ ready_queue.items # <<>>

\* the time slices a process can be left with between two primitives
Slices == 1..DefaultQuantum

\* C25: between primitives every live process has 1 to 5 ticks left, in its Directory
\* copy and its queue copy: a Running process is never left with 0, and Suspend and
\* Activate keep the count, so that a process suspended while Running with k ticks
\* left is Ready again with k ticks after Activate.
C25_SliceInRange ==
    /\ \A pid \in DOMAIN total_chain :
          /\ total_chain[pid].remaining_time \in Slices
          /\ \A copy \in QueueCopies(pid) : copy.remaining_time \in Slices
    /\ \A pid \in DOMAIN run_one_cycle(Mgr).m.total_chain :
          run_one_cycle(Mgr).m.total_chain[pid].remaining_time \in Slices
    /\ \A pid \in QueuePids(ready_queue) \cup QueuePids(running_queue) :
          LET k == total_chain[pid].remaining_time
              s == suspend_process(Mgr, pid)
              a == activate_process(s.m, pid)
          IN /\ s.ok /\ a.ok
             /\ s.m.total_chain[pid].remaining_time = k
             /\ CopyIn(s.m.waiting_queue, pid).remaining_time = k
             /\ a.m.total_chain[pid].remaining_time = k
             /\ a.m.total_chain[pid].state = "Ready"
             /\ CopyIn(a.m.ready_queue, pid).remaining_time = k
    /\ \A pid \in QueuePids(waiting_queue) :
          LET a == activate_process(Mgr, pid)
          IN /\ a.ok
             /\ a.m.total_chain[pid].remaining_time = total_chain[pid].remaining_time
             /\ CopyIn(a.m.ready_queue, pid).remaining_time
                  = CopyIn(waiting_queue, pid).remaining_time

\* C25 witness: a process that was suspended while Running with 2 ticks left and then
\* activated is Ready with 2 ticks, while another is Running with its last tick.
C25_Witness ==
    /\ \E i \in 1..Len(ready_queue.items) :
          /\ ready_queue.items[i].remaining_time = 2
          /\ total_chain[ready_queue.items[i].pid].remaining_time = 2
    /\ running_queue.items # <<>>
    /\ running_queue.items[1].remaining_time = 1

\* C26: no slot leaks and no counter drifts. The number of Directory entries is the
\* allocator's used_count and is the sum of the three queues' lengths, each queue's
\* stored length being the number of nodes linked in it.
C26_CountsAgree ==
    /\ \A q \in {ready_queue, waiting_queue, running_queue} : q.length = Len(q.items)
    /\ Cardinality(DOMAIN total_chain) = get_used_count(pcb_pool)
    /\ Cardinality(DOMAIN total_chain)
         = ready_queue.length + waiting_queue.length + running_queue.length
    /\ Cardinality(DOMAIN total_chain)
         = Len(ready_queue.items) + Len(waiting_queue.items) + Len(running_queue.items)
    /\ get_free_count(pcb_pool) = pcb_pool.pool_size - Cardinality(DOMAIN total_chain)
    /\ Cardinality({i \in 0..(pcb_pool.pool_size - 1) : i \notin FreeCover(pcb_pool)})
         = Cardinality(DOMAIN total_chain)

\* C26 witness: four processes were created and two terminated, one of them from
\* the middle of a queue; the two left are in different queues.
C26_Witness ==
    /\ next_pid = 5
    /\ DOMAIN total_chain = {1, 4}
    /\ pcb_pool.used_count = 2
    /\ ready_queue.length = 1 /\ waiting_queue.length = 1 /\ running_queue.length = 0
    /\ PidsOf(waiting_queue) = <<1>>

====
